---- MODULE Spec2Model ----
(***************************************************************************)
(* Model of the shortest-path engine of src/lib/dijkstra.ts: one call of   *)
(* dijkstra(edges, startNode, endNode), stepped through graph              *)
(* construction, the two early returns, the main loop (one iteration per   *)
(* step), the predecessor guard, path reconstruction (one iteration per    *)
(* step) and the final return.                                             *)
(***************************************************************************)
EXTENDS Integers, Sequences, FiniteSets, TLC

VARIABLES edges, startNode, endNode, graph, distances, previous, unvisited,
          path, current, result, pc

\* The favicon animator of src/lib/mouth-fuckin-cat.ts: its STATE object (State), the
\* icon links of the page that are in document.head, document.hidden, the
\* asynchronous continuations that wait for frames to be preloaded, the
\* controllers handed out (each by the preloadImages option it captured) and
\* the last call made on the interface.
VARIABLES State, headIcons, hidden, pending, controllers, lastCall

favicon == <<State, headIcons, hidden, pending, controllers, lastCall>>

\* The graph-editing page of src/app/short-path/page.tsx: its node list, its
\* edge list and the selected start and end nodes.
VARIABLES pageNodes, pageEdges, pageStart, pageEnd

page == <<pageNodes, pageEdges, pageStart, pageEnd>>

\* The unfollow handler of src/app/api/unfollow/route.ts: the follow
\* relations and the posts in the database, the socket events emitted, and
\* the requests being served, each with its position in the handler.
VARIABLES follows, posts, socketEvents, requests

unfollow == <<follows, posts, socketEvents, requests>>

dijkstra == <<edges, startNode, endNode, graph, distances, previous, unvisited,
              path, current, result, pc>>

vars == <<edges, startNode, endNode, graph, distances, previous, unvisited,
          path, current, result, pc, favicon, page, unfollow>>

(***************************************************************************)
(* Bounds of the model and the values the inputs are drawn from.           *)
(***************************************************************************)
MaxEdges == 2

MaxWeight == 1

\* Node identifiers are strings; the empty string is a legal identifier.
Nodes == {"", "A", "B", "C", "D"}

\* The identifiers free edge lists are written over.
ListNodes == {"", "A", "B"}

\* One negative weight besides the non-negative ones: line 39 stores any number.
Weights == (0..MaxWeight) \cup {-1}

\* JavaScript's null (a value no node identifier of the model equals).
Null == "<null>"

\* JavaScript's Infinity: above every sum of weights the model can form.
Infinity == 1000000

(***************************************************************************)
(* A JavaScript Map / Set keeps its keys in insertion order: keys is that  *)
(* order, val the key -> value mapping.                                    *)
(***************************************************************************)
EmptyMap == [keys |-> <<>>, val |-> <<>>]

MapHas(m, k) == \E i \in 1..Len(m.keys) : m.keys[i] = k

MapGet(m, k) == m.val[k]

MapSet(m, k, v) ==
  [keys |-> IF MapHas(m, k) THEN m.keys ELSE Append(m.keys, k),
   val  |-> [x \in (DOMAIN m.val) \cup {k} |-> IF x = k THEN v ELSE m.val[x]]]

\* Set.delete: the remaining elements keep their order.
\* SetDelete that empties the set.
SetDeleteAll(set, k) == <<>>

\* SetDelete that leaves the set as it is.
SetDeleteNothing(set, k) == set

SetDelete(s, k) == SelectSeq(s, LAMBDA x : x # k)

SetHas(s, k) == \E i \in 1..Len(s) : s[i] = k

(***************************************************************************)
(* Graph construction, lines 27-41.                                        *)
(***************************************************************************)
\* AddEdge with the weight of a pair written only once: the first edge wins.
AddEdgeKeepFirst(g, edge) ==
  LET g1 == IF ~MapHas(g, edge.from) THEN MapSet(g, edge.from, EmptyMap) ELSE g
      g2 == IF ~MapHas(g1, edge.to) THEN MapSet(g1, edge.to, EmptyMap) ELSE g1
      g3 == IF MapHas(MapGet(g2, edge.from), edge.to) THEN g2
            ELSE MapSet(g2, edge.from, MapSet(MapGet(g2, edge.from), edge.to, edge.weight))
  IN  IF MapHas(MapGet(g3, edge.to), edge.from) /\ edge.from # edge.to THEN g3
      ELSE MapSet(g3, edge.to, MapSet(MapGet(g3, edge.to), edge.from, edge.weight))

\* AddEdge without line 40: the edge is stored from -> to only.
AddEdgeDirected(g, edge) ==
  LET g1 == IF ~MapHas(g, edge.from) THEN MapSet(g, edge.from, EmptyMap) ELSE g
      g2 == IF ~MapHas(g1, edge.to) THEN MapSet(g1, edge.to, EmptyMap) ELSE g1
  IN  MapSet(g2, edge.from, MapSet(MapGet(g2, edge.from), edge.to, edge.weight))

\* AddEdge without the test of line 31: the neighbours of from start afresh.
AddEdgeFreshFrom(g, edge) ==
  LET g1 == MapSet(g, edge.from, EmptyMap)
      g2 == IF ~MapHas(g1, edge.to) THEN MapSet(g1, edge.to, EmptyMap) ELSE g1
      g3 == MapSet(g2, edge.from, MapSet(MapGet(g2, edge.from), edge.to, edge.weight))
  IN  MapSet(g3, edge.to, MapSet(MapGet(g3, edge.to), edge.from, edge.weight))
\* AddEdge whose line 40 does not overwrite: the direction to -> from keeps
\* the weight it got first.
AddEdgeKeepReverse(g, edge) ==
  LET g1 == IF ~MapHas(g, edge.from) THEN MapSet(g, edge.from, EmptyMap) ELSE g
      g2 == IF ~MapHas(g1, edge.to) THEN MapSet(g1, edge.to, EmptyMap) ELSE g1
      g3 == MapSet(g2, edge.from, MapSet(MapGet(g2, edge.from), edge.to, edge.weight))
  IN  IF MapHas(MapGet(g3, edge.to), edge.from) THEN g3
      ELSE MapSet(g3, edge.to, MapSet(MapGet(g3, edge.to), edge.from, edge.weight))
AddEdge(g, edge) ==
  LET g1 == IF ~MapHas(g, edge.from) THEN MapSet(g, edge.from, EmptyMap) ELSE g
      g2 == IF ~MapHas(g1, edge.to) THEN MapSet(g1, edge.to, EmptyMap) ELSE g1
      g3 == MapSet(g2, edge.from, MapSet(MapGet(g2, edge.from), edge.to, edge.weight))
  IN  MapSet(g3, edge.to, MapSet(MapGet(g3, edge.to), edge.from, edge.weight))

RECURSIVE BuildFrom(_, _, _)
BuildFrom(es, i, g) ==
  IF i > Len(es) THEN g ELSE BuildFrom(es, i + 1, AddEdge(g, es[i]))

BuildGraphOf(es) == BuildFrom(es, 1, EmptyMap)

\* NodesExist that forgets startNode.
EndExists(g, s, e) == MapHas(g, e)

\* NodesExist with the start = end short-circuit tested first.
SameOrExist(g, s, e) == s = e \/ (MapHas(g, s) /\ MapHas(g, e))

\* NodesExist that also rejects a graph holding a negative weight.
NodesExistNonNegative(g, s, e) ==
  /\ MapHas(g, s) /\ MapHas(g, e)
  /\ \A i \in DOMAIN g.keys :
       \A j \in DOMAIN MapGet(g, g.keys[i]).keys :
         MapGet(MapGet(g, g.keys[i]), MapGet(g, g.keys[i]).keys[j]) >= 0
\* Line 44: both nodes are keys of the graph.
NodesExist(g, s, e) == MapHas(g, s) /\ MapHas(g, e)

\* Line 49.
SameNode(s, e) == s = e

(***************************************************************************)
(* Initialisation of the search, lines 54-65.                              *)
(***************************************************************************)
RECURSIVE InitFrom(_, _, _)
InitFrom(keys, i, st) ==
  IF i > Len(keys) THEN st
  ELSE InitFrom(keys, i + 1,
         [distances |-> MapSet(st.distances, keys[i], Infinity),
          previous  |-> MapSet(st.previous, keys[i], Null),
          unvisited |-> IF SetHas(st.unvisited, keys[i]) THEN st.unvisited
                        ELSE Append(st.unvisited, keys[i])])

InitSearchOf(g, s) ==
  LET st == InitFrom(g.keys, 1,
              [distances |-> EmptyMap, previous |-> EmptyMap, unvisited |-> <<>>])
  IN  [st EXCEPT !.distances = MapSet(st.distances, s, 0)]

(***************************************************************************)
(* Selection of the unvisited node of least distance, lines 70-79.         *)
(***************************************************************************)
\* ScanMin that compares with Infinity instead of the least distance so far:
\* the last unvisited node that was reached is selected.
RECURSIVE ScanFinite(_, _, _, _)
ScanFinite(unv, dist, i, best) ==
  IF i > Len(unv) THEN best
  ELSE LET distance == MapGet(dist, unv[i])
       IN  ScanFinite(unv, dist, i + 1,
             IF distance < Infinity
             THEN [currentNode |-> unv[i], minDistance |-> distance]
             ELSE best)
\* ScanMin with <= in line 75: among equals the last one scanned is selected.
RECURSIVE ScanLastMin(_, _, _, _)
ScanLastMin(unv, dist, i, best) ==
  IF i > Len(unv) THEN best
  ELSE LET distance == MapGet(dist, unv[i])
       IN  ScanLastMin(unv, dist, i + 1,
             IF distance <= best.minDistance
             THEN [currentNode |-> unv[i], minDistance |-> distance]
             ELSE best)
RECURSIVE ScanMin(_, _, _, _)
ScanMin(unv, dist, i, best) ==
  IF i > Len(unv) THEN best
  ELSE LET distance == MapGet(dist, unv[i])
       IN  ScanMin(unv, dist, i + 1,
             IF distance < best.minDistance
             THEN [currentNode |-> unv[i], minDistance |-> distance]
             ELSE best)

\* SelectMin that takes the first unvisited node instead of the nearest.
SelectFirst(unv, dist) ==
  IF Len(unv) = 0 THEN [currentNode |-> Null, minDistance |-> Infinity]
  ELSE [currentNode |-> unv[1], minDistance |-> MapGet(dist, unv[1])]

SelectMin(unv, dist) ==
  ScanMin(unv, dist, 1, [currentNode |-> Null, minDistance |-> Infinity])

\* LoopExits that also stops as soon as the end node has been reached.
LoopExitsOnReach(st, e) ==
  LET sel == SelectMin(st.unvisited, st.distances)
  IN  \/ Len(st.unvisited) = 0
      \/ sel.currentNode = Null
      \/ sel.minDistance = Infinity
      \/ sel.currentNode = e
      \/ MapGet(st.distances, e) < Infinity
\* Lines 68, 82 and 87: the loop ends.
LoopExits(st, e) ==
  LET sel == SelectMin(st.unvisited, st.distances)
  IN  \/ Len(st.unvisited) = 0
      \/ sel.currentNode = Null
      \/ sel.minDistance = Infinity
      \/ sel.currentNode = e

(***************************************************************************)
(* Relaxation of one neighbour, lines 97-103, and of all, lines 94-105.    *)
(***************************************************************************)
\* RelaxOne without the comparison of line 99: every neighbour is overwritten.
RelaxOneAlways(st, u, neighbor, weight) ==
  IF SetHas(st.unvisited, neighbor)
  THEN LET alt == MapGet(st.distances, u) + weight
       IN  [st EXCEPT !.distances = MapSet(st.distances, neighbor, alt),
                      !.previous  = MapSet(st.previous, neighbor, u)]
  ELSE st

\* RelaxOne without line 101: the predecessor is not recorded.
RelaxOneNoPrevious(st, u, neighbor, weight) ==
  IF SetHas(st.unvisited, neighbor)
  THEN LET alt == MapGet(st.distances, u) + weight
       IN  IF alt < MapGet(st.distances, neighbor)
           THEN [st EXCEPT !.distances = MapSet(st.distances, neighbor, alt)]
           ELSE st
  ELSE st

\* RelaxOne with <= in line 99: an equally long route replaces the recorded one.
RelaxOneOnTie(st, u, neighbor, weight) ==
  IF SetHas(st.unvisited, neighbor)
  THEN LET alt == MapGet(st.distances, u) + weight
       IN  IF alt <= MapGet(st.distances, neighbor)
           THEN [st EXCEPT !.distances = MapSet(st.distances, neighbor, alt),
                           !.previous  = MapSet(st.previous, neighbor, u)]
           ELSE st
  ELSE st
\* RelaxOne without line 100: the predecessor is recorded, the distance is not.
RelaxOnePreviousOnly(st, u, neighbor, weight) ==
  IF SetHas(st.unvisited, neighbor)
  THEN LET alt == MapGet(st.distances, u) + weight
       IN  IF alt < MapGet(st.distances, neighbor)
           THEN [st EXCEPT !.previous = MapSet(st.previous, neighbor, u)]
           ELSE st
  ELSE st
RelaxOne(st, u, neighbor, weight) ==
  IF SetHas(st.unvisited, neighbor)
  THEN LET alt == MapGet(st.distances, u) + weight
       IN  IF alt < MapGet(st.distances, neighbor)
           THEN [st EXCEPT !.distances = MapSet(st.distances, neighbor, alt),
                           !.previous  = MapSet(st.previous, neighbor, u)]
           ELSE st
  ELSE st

RECURSIVE RelaxFrom(_, _, _, _)
RelaxFrom(st, u, neighbors, i) ==
  IF i > Len(neighbors.keys) THEN st
  ELSE RelaxFrom(RelaxOne(st, u, neighbors.keys[i], MapGet(neighbors, neighbors.keys[i])),
                 u, neighbors, i + 1)

\* LoopBody with line 91 after the relaxation: the node is still unvisited
\* while its neighbours are scanned.
LoopBodyRelaxFirst(st, g) ==
  LET u  == SelectMin(st.unvisited, st.distances).currentNode
      s1 == RelaxFrom(st, u, MapGet(g, u), 1)
  IN  [s1 EXCEPT !.unvisited = SetDelete(s1.unvisited, u)]
\* One iteration of the main loop that does not leave it, lines 91-105.
LoopBody(st, g) ==
  LET u  == SelectMin(st.unvisited, st.distances).currentNode
      s1 == [st EXCEPT !.unvisited = SetDelete(st.unvisited, u)]
  IN  RelaxFrom(s1, u, MapGet(g, u), 1)

RECURSIVE RunLoop(_, _, _)
RunLoop(st, g, e) ==
  IF LoopExits(st, e) THEN st ELSE RunLoop(LoopBody(st, g), g, e)

(***************************************************************************)
(* Path reconstruction, lines 109-120.                                     *)
(***************************************************************************)
\* Line 113.
NoPredecessor(prev, s, e) == MapGet(prev, e) = Null /\ s # e

\* Line 119: previous.get(current) || null. The empty string is falsy, so an
\* empty-string predecessor reads as null.
OrNull(v) == IF v = Null \/ v = "" THEN Null ELSE v

NextCurrent(prev, cur) == OrNull(MapGet(prev, cur))

RECURSIVE WalkBack(_, _, _)
WalkBack(prev, cur, p) ==
  IF cur = Null THEN p ELSE WalkBack(prev, NextCurrent(prev, cur), <<cur>> \o p)

(***************************************************************************)
(* Results: null, or {path, distance}.                                     *)
(***************************************************************************)
NullResult == [isNull |-> TRUE, path |-> <<>>, distance |-> 0]

Found(p, d) == [isNull |-> FALSE, path |-> p, distance |-> d]

\* Lines 122-132.
FinalResult(p, dist, e) ==
  LET distance == MapGet(dist, e)
  IN  IF distance = Infinity \/ Len(p) = 0 THEN NullResult ELSE Found(p, distance)

\* The whole function, lines 21-133.
Dijkstra(es, s, e) ==
  LET g == BuildGraphOf(es)
  IN  IF ~NodesExist(g, s, e) THEN NullResult
      ELSE IF SameNode(s, e) THEN Found(<<s>>, 0)
      ELSE LET st == RunLoop(InitSearchOf(g, s), g, e)
           IN  IF NoPredecessor(st.previous, s, e) THEN NullResult
               ELSE FinalResult(WalkBack(st.previous, e, <<>>), st.distances, e)

(***************************************************************************)
(* The inputs of a call.                                                   *)
(***************************************************************************)
EdgeSet == [from : ListNodes, to : ListNodes, weight : Weights]

\* The identifiers of an edge list in the order the list mentions them.
Mentions(es) == [i \in 1..(2 * Len(es)) |-> IF i % 2 = 1 THEN es[(i + 1) \div 2].from
                                             ELSE es[i \div 2].to]

\* "A" is the first non-empty identifier a list mentions: lists that differ
\* only in the names of their non-empty identifiers are the same input.
NamedInOrder(es) ==
  LET m == Mentions(es)
  IN  \A i \in DOMAIN m : m[i] = "B" => \E j \in 1..(i - 1) : m[j] = "A"

\* Every edge list of at most MaxEdges edges: any orientation, self-loops,
\* repeated pairs, negative weights.
EdgeLists ==
  UNION {{es \in [1..n -> EdgeSet] : NamedInOrder(es)} : n \in 0..MaxEdges}

\* The edge lists that lay four nodes out on a ring, closed or with its last
\* edge missing, with non-negative weights: two routes between any two nodes.
\* The nodes are named in the order the list introduces them, and the empty
\* string stands at one place of the ring or at none.
RingNames == <<"A", "B", "C", "D">>

RingOrders ==
  {[i \in DOMAIN RingNames |-> IF i = k THEN "" ELSE RingNames[i]] :
     k \in 0..Len(RingNames)}

RingEdges(p, w, n) ==
  [i \in 1..n |-> [from |-> p[i], to |-> p[(i % Len(p)) + 1], weight |-> w[i]]]

RingLists ==
  {RingEdges(p, w, Len(p) - open) :
     p \in RingOrders, w \in [DOMAIN RingNames -> 0..MaxWeight], open \in {0, 1}}

(***************************************************************************)
(* The favicon animator, src/lib/mouth-fuckin-cat.ts. The animated links   *)
(* are kept once, in STATE.animatedLinks: every function that puts one     *)
(* into document.head or takes one out does the same to that list. The     *)
(* type and sizes attributes of a link are left out.                       *)
(***************************************************************************)
MaxPending == 1

FrameLists == {<<>>, <<"f1">>, <<"f1", "f2">>}

IntervalInputs == {0}

\* Lines 341-349: the options at their defaults, and with one of them off.
DefaultOptions ==
  [takeoverExistingIcons |-> TRUE, pauseWhenHidden |-> TRUE,
   alsoSetShortcutIcon |-> TRUE, immediate |-> TRUE, preloadImages |-> TRUE]

OptionInputs ==
  {DefaultOptions} \cup {[DefaultOptions EXCEPT ![k] = FALSE] : k \in DOMAIN DefaultOptions}

OriginalIcons == {"/favicon.ico"}

TimerId == "<timer>"

NoHref == "<none>"

Undefined == "undefined"

\* (index + 1) % 0 of line 206.
NaN == -1

\* Lines 233-278: the data URI an image URL is converted to.
DataUriOf(url) == IF url = "f1" THEN "data:f1" ELSE "data:f2"

\* Lines 57-74.
InitialState ==
  [timerId |-> Null, index |-> 0, frames |-> <<>>, intervalMs |-> 300,
   running |-> FALSE, pauseWhenHidden |-> TRUE, takeoverExistingIcons |-> TRUE,
   alsoSetShortcutIcon |-> TRUE, animatedLinks |-> <<>>,
   removedOriginals |-> <<>>, visibilityHandler |-> FALSE,
   preloadedFrames |-> {}]

\* Lines 104-112.
CreateAnimatedLink(rel) == [rel |-> rel, href |-> NoHref]

\* Lines 114-128.
EnsureAnimatedLinks(alsoSetShortcutIcon) ==
  IF alsoSetShortcutIcon
  THEN <<CreateAnimatedLink("icon"), CreateAnimatedLink("shortcut icon")>>
  ELSE <<CreateAnimatedLink("icon")>>

\* Lines 130-148.
UpdateAnimatedLinksHref(S, href) ==
  [S EXCEPT !.animatedLinks =
     [i \in DOMAIN S.animatedLinks |-> [S.animatedLinks[i] EXCEPT !.href = href]]]

\* Lines 150-158.
RemoveAnimatedLinks(S) == [S EXCEPT !.animatedLinks = <<>>]

\* Lines 160-172: the icons of the page leave the head and are saved. No
\* function of the file calls this one: inside startFaviconAnimation the name
\* is the boolean option of line 344, which line 359 only stores.
TakeoverExistingIcons(S, head) ==
  [State |-> [S EXCEPT !.removedOriginals =
                 S.removedOriginals \o <<CHOOSE el \in head : TRUE>>],
   head  |-> head \ {CHOOSE el \in head : TRUE}]

\* Lines 174-185: the saved icons go back into the head.
RestoredHead(S, head) ==
  head \cup {S.removedOriginals[i] : i \in DOMAIN S.removedOriginals}

RestoreOriginalIcons(S) == [S EXCEPT !.removedOriginals = <<>>]

\* Lines 187-192.
ClearTimer(S) == [S EXCEPT !.timerId = Null]

\* Lines 194-210.
StartTimer(S) ==
  IF Len(S.frames) <= 1
  THEN IF Len(S.frames) = 1 THEN UpdateAnimatedLinksHref(S, S.frames[1]) ELSE S
  ELSE [ClearTimer(S) EXCEPT !.timerId = TimerId]

\* Lines 212-225 and 227-231.
AttachVisibilityHandler(S) == [S EXCEPT !.visibilityHandler = TRUE]

DetachVisibilityHandler(S) == [S EXCEPT !.visibilityHandler = FALSE]

\* Lines 451-467.
InternalStop(S, restoreOriginals) ==
  LET s1 == RemoveAnimatedLinks(DetachVisibilityHandler(ClearTimer(S)))
      s2 == IF restoreOriginals THEN RestoreOriginalIcons(s1) ELSE s1
  IN  [s2 EXCEPT !.running = FALSE, !.frames = <<>>, !.index = 0]

\* Lines 356 and 434: Math.max(10, ms | 0).
ClampInterval(ms) == IF ms > 10 THEN ms ELSE 10

\* Lines 283-308: what preloading may yield. A cached frame comes from the
\* cache; any other one is converted and cached, or, when loading it fails,
\* kept as the URL it was.
RECURSIVE PreloadFrom(_, _, _, _)
PreloadFrom(frames, i, loadedFrames, cache) ==
  IF i > Len(frames) THEN {[frames |-> loadedFrames, cache |-> cache]}
  ELSE IF frames[i] \in cache
       THEN PreloadFrom(frames, i + 1, Append(loadedFrames, DataUriOf(frames[i])), cache)
       ELSE PreloadFrom(frames, i + 1, Append(loadedFrames, DataUriOf(frames[i])),
                        cache \cup {frames[i]})
            \cup PreloadFrom(frames, i + 1, Append(loadedFrames, frames[i]), cache)

PreloadFrames(frames, cache) == PreloadFrom(frames, 1, <<>>, cache)

\* Lines 371-388: initializeFrames once the frames are at hand.
InitializeFrames(S, processedFrames, immediate) ==
  LET s1 == [RemoveAnimatedLinks([S EXCEPT !.frames = processedFrames])
               EXCEPT !.animatedLinks = EnsureAnimatedLinks(S.alsoSetShortcutIcon)]
      s2 == IF Len(s1.frames) > 0 /\ immediate
            THEN UpdateAnimatedLinksHref(s1, s1.frames[1]) ELSE s1
      s3 == IF s2.pauseWhenHidden
            THEN AttachVisibilityHandler(s2) ELSE DetachVisibilityHandler(s2)
  IN  StartTimer([s3 EXCEPT !.running = TRUE])

\* Lines 417-429: updateFrames once the frames are at hand.
UpdateFrames(S, processedFrames) ==
  LET s1 == [S EXCEPT !.frames = processedFrames]
      s2 == IF s1.index >= Len(s1.frames) THEN [s1 EXCEPT !.index = 0] ELSE s1
  IN  IF Len(s2.frames) <= 1
      THEN LET s3 == ClearTimer(s2)
           IN  IF Len(s3.frames) = 1
               THEN UpdateAnimatedLinksHref(s3, s3.frames[1]) ELSE s3
      ELSE StartTimer(s2)

\* Lines 205-209: the interval callback.
Tick(S) ==
  LET index == IF S.index = NaN \/ Len(S.frames) = 0 THEN NaN
               ELSE (S.index + 1) % Len(S.frames)
      href  == IF index = NaN THEN Undefined ELSE S.frames[index + 1]
  IN  UpdateAnimatedLinksHref([S EXCEPT !.index = index], href)

\* Lines 215-222: the visibilitychange handler.
VisibilityHandler(S, documentHidden) ==
  IF documentHidden THEN ClearTimer(S)
  ELSE IF S.running THEN StartTimer(S) ELSE S

RemoveAt(seq, i) == SubSeq(seq, 1, i - 1) \o SubSeq(seq, i + 1, Len(seq))

\* The module just loaded in a visible page that has its own icon.
FaviconInit ==
  /\ State = InitialState
  /\ headIcons = OriginalIcons
  /\ hidden = FALSE
  /\ pending = <<>>
  /\ controllers = {}
  /\ lastCall = "none"
\* The edge list the graph-editing page loads with its initial data.
InitialEdges ==
  << [from |-> "A", to |-> "B", weight |-> 2],
     [from |-> "B", to |-> "D", weight |-> 1],
     [from |-> "D", to |-> "F", weight |-> 4],
     [from |-> "A", to |-> "C", weight |-> 5],
     [from |-> "B", to |-> "E", weight |-> 3],
     [from |-> "C", to |-> "E", weight |-> 1],
     [from |-> "E", to |-> "F", weight |-> 2] >>

\* A triangle whose lightest route from A to B runs over a negative edge.
NegativeEdges ==
  << [from |-> "A", to |-> "B", weight |-> 2],
     [from |-> "A", to |-> "C", weight |-> 3],
     [from |-> "C", to |-> "B", weight |-> -2] >>

\* A list with a negative edge and a self-loop that moves C in front of B in
\* the order of first mention.
SelfLoopEdges ==
  << [from |-> "C", to |-> "C", weight |-> 0],
     [from |-> "A", to |-> "B", weight |-> 1],
     [from |-> "A", to |-> "C", weight |-> 1],
     [from |-> "C", to |-> "B", weight |-> -1] >>

\* The lists above, asked between any two of their own nodes.
FixedLists == {InitialEdges, NegativeEdges, SelfLoopEdges}

EndpointsOf(es) == {es[i].from : i \in DOMAIN es} \cup {es[i].to : i \in DOMAIN es}

(***************************************************************************)
(* The graph-editing page, src/app/short-path/page.tsx. The form fields    *)
(* are the inputs of the handlers; shortestPath and shortestDistance are   *)
(* recomputed from the other state after every change (lines 35-42) and    *)
(* are the operator ShortestPath.                                          *)
(***************************************************************************)
MaxPageEdges == 2

\* What can be typed as a node label: nothing, a blank, and labels that need
\* trimming and upper-casing, two of them with a '-' inside.
LabelInputs == {"", " ", " a", "a-b", "b-a"}

\* String.prototype.trim on the labels above.
Trim(text) ==
  CASE text = " "  -> ""
    [] text = " a" -> "a"
    [] OTHER       -> text

\* String.prototype.toUpperCase on the trimmed labels and on node ids.
ToUpperCase(text) ==
  CASE text = "a"   -> "A"
    [] text = "a-b" -> "A-B"
    [] text = "b-a" -> "B-A"
    [] OTHER        -> text

\* The ids the labels above give.
LabelIds == {ToUpperCase(Trim(l)) : l \in LabelInputs} \ {""}

\* What can stand in the weight field.
WeightInputs == {"", "abc", "-1", "2"}

\* parseFloat on the texts above; nan stands for NaN.
ParseFloat(text) ==
  CASE text = "2"  -> [nan |-> FALSE, value |-> 2]
    [] text = "-1" -> [nan |-> FALSE, value |-> -1]
    [] OTHER       -> [nan |-> TRUE, value |-> 0]

\* Lines 21-24.
PageInit ==
  /\ pageNodes = <<>>
  /\ pageEdges = <<>>
  /\ pageStart = ""
  /\ pageEnd = ""

\* nodes.some((n) => n.id === id), lines 99 and 121.
NodeExists(nodes, id) == \E i \in DOMAIN nodes : nodes[i].id = id

\* Lines 127-128.
EdgeId(source, target) == source \o "-" \o target

\* EdgeExists that looks for the id source-target only.
EdgeExistsForward(es, source, target) ==
  \E i \in DOMAIN es : es[i].id = EdgeId(source, target)

\* Lines 129-131: an edge with this id, or with the id the other way round.
EdgeExists(es, source, target) ==
  \E i \in DOMAIN es :
    es[i].id = EdgeId(source, target) \/ es[i].id = EdgeId(target, source)

\* Line 115: isNaN(weight) || weight < 0.
WeightRejected(weight) == weight.nan \/ weight.value < 0

\* IncidentEdgesRemoved that drops only the edges that leave the node.
OutgoingEdgesRemoved(es, nodeId) ==
  SelectSeq(es, LAMBDA e : e.source # nodeId)

\* Line 147.
IncidentEdgesRemoved(es, nodeId) ==
  SelectSeq(es, LAMBDA e : e.source # nodeId /\ e.target # nodeId)

PageEdge(source, target, weight) ==
  [id |-> EdgeId(source, target), source |-> source, target |-> target,
   weight |-> weight]

\* Lines 157-164.
InitialNodes ==
  << [id |-> "A", label |-> "A"], [id |-> "B", label |-> "B"],
     [id |-> "C", label |-> "C"], [id |-> "D", label |-> "D"],
     [id |-> "E", label |-> "E"], [id |-> "F", label |-> "F"] >>

\* Lines 165-173.
InitialPageEdges ==
  << PageEdge("A", "B", 2), PageEdge("B", "D", 1), PageEdge("D", "F", 4),
     PageEdge("A", "C", 5), PageEdge("B", "E", 3), PageEdge("C", "E", 1),
     PageEdge("E", "F", 2) >>

\* Lines 76-80: the edge list handed to dijkstra.
GraphEdges(es) ==
  [i \in DOMAIN es |-> [from |-> es[i].source, to |-> es[i].target,
                        weight |-> es[i].weight]]

\* Lines 35-42 and 70-92: what the page shows as shortest path.
ShortestPath ==
  IF pageStart = "" \/ pageEnd = "" \/ Len(pageEdges) = 0 THEN NullResult
  ELSE Dijkstra(GraphEdges(pageEdges), pageStart, pageEnd)

NodeIds(nodes) == {nodes[i].id : i \in DOMAIN nodes}

\* The database before the first request to src/app/api/unfollow/route.ts:
\* two users who follow each other, no post.
Users == {1, 2}

InitialFollows == {<<1, 2>>, <<2, 1>>}

UnfollowInit ==
  /\ follows = InitialFollows
  /\ posts = <<>>
  /\ socketEvents = <<>>
  /\ requests = <<>>
Init ==
  /\ \/ edges \in EdgeLists /\ startNode \in ListNodes /\ endNode \in ListNodes
     \/ edges \in RingLists /\ startNode \in Nodes /\ endNode \in Nodes
     \/ /\ edges \in FixedLists
        /\ startNode \in EndpointsOf(edges)
        /\ endNode \in EndpointsOf(edges)
  /\ graph = EmptyMap
  /\ distances = EmptyMap
  /\ previous = EmptyMap
  /\ unvisited = <<>>
  /\ path = <<>>
  /\ current = Null
  /\ result = NullResult
  /\ pc = "build"
  /\ FaviconInit
  /\ PageInit
  /\ UnfollowInit

SearchState == [distances |-> distances, previous |-> previous, unvisited |-> unvisited]

\* Lines 27-41.
BuildGraph ==
  /\ pc = "build"
  /\ graph' = BuildGraphOf(edges)
  /\ pc' = "check"
  /\ UNCHANGED <<favicon, page, unfollow>>
  /\ UNCHANGED <<edges, startNode, endNode, distances, previous, unvisited,
                 path, current, result>>

\* Lines 44-46.
ReturnUnknown ==
  /\ pc = "check"
  /\ ~NodesExist(graph, startNode, endNode)
  /\ result' = NullResult
  /\ pc' = "done"
  /\ UNCHANGED <<favicon, page, unfollow>>
  /\ UNCHANGED <<edges, startNode, endNode, graph, distances, previous,
                 unvisited, path, current>>

\* ReturnSame with both arguments put on the path.
ReturnSamePair ==
  /\ pc = "check"
  /\ NodesExist(graph, startNode, endNode)
  /\ SameNode(startNode, endNode)
  /\ result' = Found(<<startNode, endNode>>, 0)
  /\ pc' = "done"
  /\ UNCHANGED <<favicon, page, unfollow>>
  /\ UNCHANGED <<edges, startNode, endNode, graph, distances, previous,
                 unvisited, path, current>>

\* Lines 49-51.
ReturnSame ==
  /\ pc = "check"
  /\ NodesExist(graph, startNode, endNode)
  /\ SameNode(startNode, endNode)
  /\ result' = Found(<<startNode>>, 0)
  /\ pc' = "done"
  /\ UNCHANGED <<favicon, page, unfollow>>
  /\ UNCHANGED <<edges, startNode, endNode, graph, distances, previous,
                 unvisited, path, current>>

\* Lines 54-65.
InitSearch ==
  /\ pc = "check"
  /\ NodesExist(graph, startNode, endNode)
  /\ ~SameNode(startNode, endNode)
  /\ LET st == InitSearchOf(graph, startNode)
     IN  /\ distances' = st.distances
         /\ previous' = st.previous
         /\ unvisited' = st.unvisited
  /\ pc' = "loop"
  /\ UNCHANGED <<favicon, page, unfollow>>
  /\ UNCHANGED <<edges, startNode, endNode, graph, path, current, result>>

\* Lines 68-105, an iteration that stays in the loop.
LoopStep ==
  /\ pc = "loop"
  /\ ~LoopExits(SearchState, endNode)
  /\ LET st == LoopBody(SearchState, graph)
     IN  /\ distances' = st.distances
         /\ previous' = st.previous
         /\ unvisited' = st.unvisited
  /\ UNCHANGED <<favicon, page, unfollow>>
  /\ UNCHANGED <<edges, startNode, endNode, graph, path, current, result, pc>>

\* Lines 68-89, the loop ends; lines 109-110.
LoopBreak ==
  /\ pc = "loop"
  /\ LoopExits(SearchState, endNode)
  /\ path' = <<>>
  /\ current' = endNode
  /\ pc' = "guard"
  /\ UNCHANGED <<favicon, page, unfollow>>
  /\ UNCHANGED <<edges, startNode, endNode, graph, distances, previous,
                 unvisited, result>>

\* Lines 113-115.
ReturnNoPath ==
  /\ pc = "guard"
  /\ NoPredecessor(previous, startNode, endNode)
  /\ result' = NullResult
  /\ pc' = "done"
  /\ UNCHANGED <<favicon, page, unfollow>>
  /\ UNCHANGED <<edges, startNode, endNode, graph, distances, previous,
                 unvisited, path, current>>

\* Lines 117-120, one iteration (the first one after the guard of line 113).
PathStep ==
  /\ \/ pc = "guard" /\ ~NoPredecessor(previous, startNode, endNode)
     \/ pc = "path"
  /\ current # Null
  /\ path' = <<current>> \o path
  /\ current' = NextCurrent(previous, current)
  /\ pc' = "path"
  /\ UNCHANGED <<favicon, page, unfollow>>
  /\ UNCHANGED <<edges, startNode, endNode, graph, distances, previous,
                 unvisited, result>>

\* Lines 117 (the loop ends) and 122-132.
Finish ==
  /\ pc = "path"
  /\ current = Null
  /\ result' = FinalResult(path, distances, endNode)
  /\ pc' = "done"
  /\ UNCHANGED <<favicon, page, unfollow>>
  /\ UNCHANGED <<edges, startNode, endNode, graph, distances, previous,
                 unvisited, path, current>>

Next ==
  \/ BuildGraph
  \/ ReturnUnknown
  \/ ReturnSame
  \/ InitSearch
  \/ LoopStep
  \/ LoopBreak
  \/ ReturnNoPath
  \/ PathStep
  \/ Finish

Spec == Init /\ [][Next]_vars

(***************************************************************************)
(* The favicon animator as a state machine: the calls of its interface,    *)
(* the continuations that run when preloading is over, the interval        *)
(* callback and the page becoming hidden or visible.                       *)
(***************************************************************************)
\* No shortest-path call is under way.
DijkstraIdle ==
  /\ edges = <<>> /\ startNode = Null /\ endNode = Null
  /\ graph = EmptyMap /\ distances = EmptyMap /\ previous = EmptyMap
  /\ unvisited = <<>> /\ path = <<>> /\ current = Null
  /\ result = NullResult /\ pc = "idle"

InitFavicon == FaviconInit /\ DijkstraIdle /\ PageInit /\ UnfollowInit

\* Lines 328-442: startFaviconAnimation. With preloadImages and frames to
\* load, initializeFrames waits at line 368 and the call returns first.
StartFaviconAnimation(frames, intervalMs, takeoverExistingIcons, pauseWhenHidden, alsoSetShortcutIcon, immediate, preloadImages) ==
  LET s0 == IF State.running THEN InternalStop(State, FALSE) ELSE State
      s1 == [s0 EXCEPT !.intervalMs = ClampInterval(intervalMs),
                       !.index = 0,
                       !.pauseWhenHidden = pauseWhenHidden,
                       !.takeoverExistingIcons = takeoverExistingIcons,
                       !.alsoSetShortcutIcon = alsoSetShortcutIcon]
  IN  /\ IF preloadImages /\ Len(frames) > 0
         THEN /\ Len(pending) < MaxPending
              /\ State' = s1
              /\ pending' = Append(pending, [task |-> "initializeFrames",
                                             frames |-> frames,
                                             immediate |-> immediate])
         ELSE /\ State' = InitializeFrames(s1, frames, immediate)
              /\ pending' = pending
      /\ controllers' = controllers \cup {preloadImages}
      /\ lastCall' = "startFaviconAnimation"
      /\ UNCHANGED <<headIcons, hidden>>
      /\ UNCHANGED <<dijkstra, page, unfollow>>

\* Lines 368-388: preloading is over and initializeFrames goes on.
InitializeFramesResumes(i) ==
  /\ i \in DOMAIN pending
  /\ pending[i].task = "initializeFrames"
  /\ \E loaded \in PreloadFrames(pending[i].frames, State.preloadedFrames) :
       State' = InitializeFrames([State EXCEPT !.preloadedFrames = loaded.cache],
                                 loaded.frames, pending[i].immediate)
  /\ pending' = RemoveAt(pending, i)
  /\ UNCHANGED <<headIcons, hidden, controllers, lastCall>>
  /\ UNCHANGED <<dijkstra, page, unfollow>>

\* Lines 447-449: stopFaviconAnimation.
StopFaviconAnimation ==
  /\ State' = InternalStop(State, TRUE)
  /\ headIcons' = RestoredHead(State, headIcons)
  /\ lastCall' = "stopFaviconAnimation"
  /\ UNCHANGED <<hidden, pending, controllers>>
  /\ UNCHANGED <<dijkstra, page, unfollow>>

\* Lines 406-408: controller.stop.
ControllerStop ==
  /\ controllers # {}
  /\ State' = InternalStop(State, TRUE)
  /\ headIcons' = RestoredHead(State, headIcons)
  /\ lastCall' = "controller.stop"
  /\ UNCHANGED <<hidden, pending, controllers>>
  /\ UNCHANGED <<dijkstra, page, unfollow>>

\* Lines 410-432: controller.setFrames of a controller that captured
\* preloadImages.
SetFrames(preloadImages, newFrames) ==
  /\ preloadImages \in controllers
  /\ IF preloadImages /\ Len(newFrames) > 0
     THEN /\ Len(pending) < MaxPending
          /\ pending' = Append(pending, [task |-> "updateFrames",
                                         frames |-> newFrames,
                                         immediate |-> FALSE])
          /\ State' = State
     ELSE /\ State' = UpdateFrames(State, newFrames)
          /\ pending' = pending
  /\ lastCall' = "setFrames"
  /\ UNCHANGED <<headIcons, hidden, controllers>>
  /\ UNCHANGED <<dijkstra, page, unfollow>>

\* Lines 415-429: preloading is over and updateFrames goes on.
UpdateFramesResumes(i) ==
  /\ i \in DOMAIN pending
  /\ pending[i].task = "updateFrames"
  /\ \E loaded \in PreloadFrames(pending[i].frames, State.preloadedFrames) :
       State' = UpdateFrames([State EXCEPT !.preloadedFrames = loaded.cache],
                             loaded.frames)
  /\ pending' = RemoveAt(pending, i)
  /\ UNCHANGED <<headIcons, hidden, controllers, lastCall>>
  /\ UNCHANGED <<dijkstra, page, unfollow>>

\* Lines 433-438: controller.setIntervalMs.
SetIntervalMs(ms) ==
  /\ controllers # {}
  /\ LET s1 == [State EXCEPT !.intervalMs = ClampInterval(ms)]
     IN  State' = IF s1.running /\ Len(s1.frames) > 1 THEN StartTimer(s1) ELSE s1
  /\ lastCall' = "setIntervalMs"
  /\ UNCHANGED <<headIcons, hidden, pending, controllers>>
  /\ UNCHANGED <<dijkstra, page, unfollow>>

\* Lines 314-323: setFavicon.
SetFavicon(href, alsoSetShortcutIcon) ==
  /\ State' = UpdateAnimatedLinksHref(
                [RemoveAnimatedLinks(State)
                   EXCEPT !.animatedLinks = EnsureAnimatedLinks(alsoSetShortcutIcon)],
                href)
  /\ lastCall' = "setFavicon"
  /\ UNCHANGED <<headIcons, hidden, pending, controllers>>
  /\ UNCHANGED <<dijkstra, page, unfollow>>

\* Lines 205-209: the interval fires.
TimerFires ==
  /\ State.timerId # Null
  /\ State' = Tick(State)
  /\ UNCHANGED <<headIcons, hidden, pending, controllers, lastCall>>
  /\ UNCHANGED <<dijkstra, page, unfollow>>

\* The page is hidden or shown; the handler of lines 215-222 runs if attached.
VisibilityChange ==
  /\ hidden' = ~hidden
  /\ State' = IF State.visibilityHandler
              THEN VisibilityHandler(State, ~hidden) ELSE State
  /\ UNCHANGED <<headIcons, pending, controllers, lastCall>>
  /\ UNCHANGED <<dijkstra, page, unfollow>>

NextFavicon ==
  \/ \E frames \in FrameLists, intervalMs \in IntervalInputs, o \in OptionInputs :
       StartFaviconAnimation(frames, intervalMs, o.takeoverExistingIcons,
                             o.pauseWhenHidden, o.alsoSetShortcutIcon,
                             o.immediate, o.preloadImages)
  \/ \E i \in 1..MaxPending : InitializeFramesResumes(i)
  \/ StopFaviconAnimation
  \/ ControllerStop
  \/ \E preloadImages \in BOOLEAN, newFrames \in FrameLists :
       SetFrames(preloadImages, newFrames)
  \/ \E i \in 1..MaxPending : UpdateFramesResumes(i)
  \/ \E ms \in IntervalInputs : SetIntervalMs(ms)
  \/ \E href \in {"f1"}, alsoSetShortcutIcon \in BOOLEAN :
       SetFavicon(href, alsoSetShortcutIcon)
  \/ TimerFires
  \/ VisibilityChange

SpecFavicon == InitFavicon /\ [][NextFavicon]_vars

(***************************************************************************)
(* The graph-editing page as a state machine: one action per handler. The  *)
(* selects of the form offer the current nodes; a value chosen earlier may *)
(* since have left the node list, so any id is a possible value. Nodes and *)
(* edges are added to node lists typed in by hand (HandBuilt); the loaded  *)
(* example is explored under every removal.                                *)
(***************************************************************************)
HandBuilt == NodeIds(pageNodes) \subseteq LabelIds

InitPage == PageInit /\ DijkstraIdle /\ FaviconInit /\ UnfollowInit

\* Lines 94-106.
addNode(newNodeLabel) ==
  /\ HandBuilt
  /\ LET nodeId == ToUpperCase(Trim(newNodeLabel))
     IN  pageNodes' = IF Trim(newNodeLabel) = "" \/ NodeExists(pageNodes, nodeId)
                      THEN pageNodes
                      ELSE Append(pageNodes, [id |-> nodeId, label |-> nodeId])
  /\ UNCHANGED <<pageEdges, pageStart, pageEnd>>
  /\ UNCHANGED <<dijkstra, favicon, unfollow>>

\* Lines 108-143.
addEdge(newEdgeSource, newEdgeTarget, newEdgeWeight) ==
  /\ HandBuilt
  /\ Len(pageEdges) < MaxPageEdges
  /\ LET source == ToUpperCase(Trim(newEdgeSource))
         target == ToUpperCase(Trim(newEdgeTarget))
         weight == ParseFloat(newEdgeWeight)
     IN  pageEdges' =
           IF \/ newEdgeSource = "" \/ newEdgeTarget = "" \/ newEdgeWeight = ""
              \/ WeightRejected(weight)
              \/ ~NodeExists(pageNodes, source) \/ ~NodeExists(pageNodes, target)
              \/ EdgeExists(pageEdges, source, target)
           THEN pageEdges
           ELSE Append(pageEdges, PageEdge(source, target, weight.value))
  /\ UNCHANGED <<pageNodes, pageStart, pageEnd>>
  /\ UNCHANGED <<dijkstra, favicon, unfollow>>

\* Lines 145-150: the button next to a node of the list.
removeNode(nodeId) ==
  /\ NodeExists(pageNodes, nodeId)
  /\ pageNodes' = SelectSeq(pageNodes, LAMBDA n : n.id # nodeId)
  /\ pageEdges' = IncidentEdgesRemoved(pageEdges, nodeId)
  /\ pageStart' = IF pageStart = nodeId THEN "" ELSE pageStart
  /\ pageEnd' = IF pageEnd = nodeId THEN "" ELSE pageEnd
  /\ UNCHANGED <<dijkstra, favicon, unfollow>>

\* Lines 152-154: the button next to an edge of the list.
removeEdge(edgeId) ==
  /\ \E i \in DOMAIN pageEdges : pageEdges[i].id = edgeId
  /\ pageEdges' = SelectSeq(pageEdges, LAMBDA e : e.id # edgeId)
  /\ UNCHANGED <<pageNodes, pageStart, pageEnd>>
  /\ UNCHANGED <<dijkstra, favicon, unfollow>>

\* Lines 156-178; the button is there while the node list is empty (line 417).
loadInitialData ==
  /\ Len(pageNodes) = 0
  /\ pageNodes' = InitialNodes
  /\ pageEdges' = InitialPageEdges
  /\ pageStart' = "A"
  /\ pageEnd' = "F"
  /\ UNCHANGED <<dijkstra, favicon, unfollow>>

\* Lines 441-451: the select offers "" and the nodes. The choice is explored
\* on node lists no longer than the ones typed in by hand.
setStartNode(value) ==
  /\ Len(pageNodes) <= Cardinality(LabelIds)
  /\ value \in {""} \cup NodeIds(pageNodes)
  /\ pageStart' = value
  /\ UNCHANGED <<pageNodes, pageEdges, pageEnd>>
  /\ UNCHANGED <<dijkstra, favicon, unfollow>>

\* Lines 458-468, explored as setStartNode is.
setEndNode(value) ==
  /\ Len(pageNodes) <= Cardinality(LabelIds)
  /\ value \in {""} \cup NodeIds(pageNodes)
  /\ pageEnd' = value
  /\ UNCHANGED <<pageNodes, pageEdges, pageStart>>
  /\ UNCHANGED <<dijkstra, favicon, unfollow>>

\* Every id a select or a button of the page can hold.
PageIds == LabelIds \cup NodeIds(InitialNodes)

PageEdgeIds == {EdgeId(s, t) : s, t \in PageIds}

NextPage ==
  \/ \E newNodeLabel \in LabelInputs : addNode(newNodeLabel)
  \/ \E newEdgeSource \in {""} \cup PageIds :
       \E newEdgeTarget \in {""} \cup PageIds :
         \E newEdgeWeight \in WeightInputs :
           addEdge(newEdgeSource, newEdgeTarget, newEdgeWeight)
  \/ \E nodeId \in PageIds : removeNode(nodeId)
  \/ \E edgeId \in PageEdgeIds : removeEdge(edgeId)
  \/ loadInitialData
  \/ \E value \in {""} \cup PageIds : setStartNode(value)
  \/ \E value \in {""} \cup PageIds : setEndNode(value)

SpecPage == InitPage /\ [][NextPage]_vars

(***************************************************************************)
(* What the claims are stated against: the undirected graph an edge list   *)
(* describes, read off the list itself.                                    *)
(***************************************************************************)
Returned == pc = "done"

Joins(edge, u, v) ==
  \/ edge.from = u /\ edge.to = v
  \/ edge.from = v /\ edge.to = u

HasEdge(es, u, v) == \E i \in DOMAIN es : Joins(es[i], u, v)

IsEndpoint(es, n) == \E i \in DOMAIN es : es[i].from = n \/ es[i].to = n

NodesOf(es) == {es[i].from : i \in DOMAIN es} \cup {es[i].to : i \in DOMAIN es}

\* The weight of the last edge of the list that joins u and v.
LastWeight(es, u, v) ==
  LET last == CHOOSE i \in DOMAIN es :
                /\ Joins(es[i], u, v)
                /\ \A j \in DOMAIN es : j > i => ~Joins(es[j], u, v)
  IN  es[last].weight

NonNegative(es) == \A i \in DOMAIN es : es[i].weight >= 0

RECURSIVE ReachFrom(_, _)
ReachFrom(es, S) ==
  LET T == S \cup {v \in NodesOf(es) : \E u \in S : HasEdge(es, u, v)}
  IN  IF T = S THEN S ELSE ReachFrom(es, T)

Connected(es, s, e) == e \in ReachFrom(es, {s})

SetMin(S) == CHOOSE x \in S : \A y \in S : x <= y

\* Bellman-Ford over the effective weights: the least weight of a walk.
RefRound(es, d) ==
  [v \in DOMAIN d |->
     SetMin({d[v]} \cup {d[u] + LastWeight(es, u, v) :
                          u \in {x \in DOMAIN d : d[x] < Infinity /\ HasEdge(es, x, v)}})]

RECURSIVE RefIter(_, _, _)
RefIter(es, d, k) == IF k = 0 THEN d ELSE RefIter(es, RefRound(es, d), k - 1)

RefDist(es, s, e) ==
  RefIter(es, [v \in NodesOf(es) |-> IF v = s THEN 0 ELSE Infinity],
          Cardinality(NodesOf(es)))[e]

BothKnown == IsEndpoint(edges, startNode) /\ IsEndpoint(edges, endNode)

\* The stepped call returns what the function computed in one go returns.
StepsAgree == Returned => result = Dijkstra(edges, startNode, endNode)

(***************************************************************************)
(* C1. Optimality: with non-negative weights, for start # end that are     *)
(* both endpoints of some edge and are connected, the call returns a       *)
(* result whose distance is the least total weight of a walk between them  *)
(* (each pair weighing what its last edge says), as Bellman-Ford finds it. *)
(***************************************************************************)
C1_Optimality ==
  (Returned /\ NonNegative(edges) /\ startNode # endNode /\ BothKnown
     /\ Connected(edges, startNode, endNode))
  => /\ ~result.isNull
     /\ result.distance = RefDist(edges, startNode, endNode)

\* A call that returns less than the weight of the edge joining start and end.
C1_Witness ==
  /\ Returned /\ NonNegative(edges) /\ startNode # endNode
  /\ HasEdge(edges, startNode, endNode)
  /\ ~result.isNull
  /\ result.distance < LastWeight(edges, startNode, endNode)
  /\ result.distance = RefDist(edges, startNode, endNode)

(***************************************************************************)
(* C2. A returned path is a contiguous walk from start to end: it begins   *)
(* with start, ends with end, and every two consecutive elements are       *)
(* neighbours in the adjacency mapping.                                    *)
(***************************************************************************)
IsNeighbour(g, u, v) == MapHas(g, u) /\ MapHas(MapGet(g, u), v)

C2_PathIsWalk ==
  (Returned /\ ~result.isNull)
  => /\ Len(result.path) >= 1
     /\ result.path[1] = startNode
     /\ result.path[Len(result.path)] = endNode
     /\ \A i \in 1..(Len(result.path) - 1) :
          IsNeighbour(graph, result.path[i], result.path[i + 1])

(***************************************************************************)
(* C3. The adjacency-mapping weights along the consecutive pairs of a      *)
(* returned path add up to the returned distance.                          *)
(***************************************************************************)
RECURSIVE PathSum(_, _, _)
PathSum(g, p, i) ==
  IF i >= Len(p) THEN 0
  ELSE MapGet(MapGet(g, p[i]), p[i + 1]) + PathSum(g, p, i + 1)

C3_PathWeighsDistance ==
  (Returned /\ ~result.isNull)
  => /\ \A i \in 1..(Len(result.path) - 1) :
          IsNeighbour(graph, result.path[i], result.path[i + 1])
     /\ PathSum(graph, result.path, 1) = result.distance

(***************************************************************************)
(* C4. Reachability: for start # end that are both endpoints of some edge, *)
(* the call returns null exactly when no walk connects them, whatever the  *)
(* signs of the weights.                                                   *)
(***************************************************************************)
C4_Reachability ==
  (Returned /\ startNode # endNode /\ BothKnown)
  => (result.isNull <=> ~Connected(edges, startNode, endNode))

\* Two known nodes that nothing connects, in a list holding a negative weight.
C4_Witness ==
  /\ Returned /\ startNode # endNode /\ BothKnown
  /\ ~Connected(edges, startNode, endNode)
  /\ ~NonNegative(edges)
  /\ result.isNull

(***************************************************************************)
(* C5. Unknown node: when start or end is the from or to of no edge, the   *)
(* call returns null straight away: the search is neither initialised nor  *)
(* run.                                                                    *)
(***************************************************************************)
SearchUntouched ==
  /\ distances = EmptyMap
  /\ previous = EmptyMap
  /\ unvisited = <<>>
  /\ path = <<>>
  /\ current = Null

C5_UnknownNode ==
  (Returned /\ ~BothKnown) => (result.isNull /\ SearchUntouched)

\* A known start, an unknown end, a list that is not empty.
C5_Witness ==
  /\ Returned
  /\ IsEndpoint(edges, startNode) /\ ~IsEndpoint(edges, endNode)
  /\ result.isNull /\ SearchUntouched

(***************************************************************************)
(* C6. Identity: for a node X that is an endpoint of some edge (a          *)
(* self-loop included), dijkstra(edges, X, X) is {path: [X], distance: 0}, *)
(* whatever the weights, zero and negative ones included.                  *)
(***************************************************************************)
C6_Identity ==
  (Returned /\ startNode = endNode /\ IsEndpoint(edges, startNode))
  => result = [isNull |-> FALSE, path |-> <<startNode>>, distance |-> 0]

\* X's only edge is a self-loop of negative weight.
C6_Witness ==
  /\ Returned /\ startNode = endNode
  /\ Len(edges) = 1 /\ edges[1].from = startNode /\ edges[1].to = startNode
  /\ edges[1].weight < 0
  /\ result = [isNull |-> FALSE, path |-> <<startNode>>, distance |-> 0]

(***************************************************************************)
(* C7. Check ordering: the existence check comes before the start = end    *)
(* short-circuit, so dijkstra(edges, X, X) is null for an X that is the    *)
(* endpoint of no edge, and an empty edge list gives null for every start  *)
(* and end.                                                                *)
(***************************************************************************)
C7_CheckOrdering ==
  /\ (Returned /\ startNode = endNode /\ ~IsEndpoint(edges, startNode))
       => result.isNull
  /\ (Returned /\ Len(edges) = 0) => result.isNull

\* X asked against itself in a list that is not empty and does not name it.
C7_Witness ==
  /\ Returned /\ startNode = endNode /\ ~IsEndpoint(edges, startNode)
  /\ Len(edges) > 0
  /\ result.isNull

(***************************************************************************)
(* C8. Duplicate edge override: of several edges joining the same pair the *)
(* search uses the weight of the last one in input order only, also when   *)
(* an earlier one is lighter: once built, the adjacency mapping holds, in  *)
(* both directions, the last weight, and a list whose edges all join start *)
(* and end gives that weight as the distance.                              *)
(***************************************************************************)
C8_LastWeightWins ==
  /\ pc = "check"
       => \A u, v \in Nodes \cup NodesOf(edges) :
            /\ IsNeighbour(graph, u, v) <=> HasEdge(edges, u, v)
            /\ IsNeighbour(graph, u, v)
                 => MapGet(MapGet(graph, u), v) = LastWeight(edges, u, v)
  /\ (Returned /\ startNode # endNode /\ Len(edges) > 0
        /\ \A i \in DOMAIN edges : Joins(edges[i], startNode, endNode))
       => /\ ~result.isNull
          /\ result.distance = edges[Len(edges)].weight

\* A lighter edge followed by a heavier one between start and end.
C8_Witness ==
  /\ Returned /\ startNode # endNode /\ Len(edges) = 2
  /\ \A i \in DOMAIN edges : Joins(edges[i], startNode, endNode)
  /\ edges[1].weight < edges[2].weight
  /\ ~result.isNull
  /\ result.distance = edges[2].weight

Reverse(p) == [i \in 1..Len(p) |-> p[Len(p) + 1 - i]]

C10_PathReversal ==
  (Returned /\ NonNegative(edges) /\ ~result.isNull /\ "" \notin NodesOf(edges))
  => LET back == Dijkstra(edges, endNode, startNode)
     IN  /\ ~back.isNull
         /\ back.path = Reverse(result.path)

\* The simple paths from s to e in the graph the edge list describes.
SimplePaths(es, s, e) ==
  UNION {{p \in [1..n -> NodesOf(es)] :
            /\ p[1] = s /\ p[n] = e
            /\ \A i, j \in 1..n : p[i] = p[j] => i = j
            /\ \A i \in 1..(n - 1) : HasEdge(es, p[i], p[i + 1])}
         : n \in 1..Cardinality(NodesOf(es))}

RECURSIVE WalkWeight(_, _, _)
WalkWeight(es, p, i) ==
  IF i >= Len(p) THEN 0
  ELSE LastWeight(es, p[i], p[i + 1]) + WalkWeight(es, p, i + 1)

ShortestPaths(es, s, e) ==
  LET all == SimplePaths(es, s, e)
  IN  {p \in all : \A q \in all : WalkWeight(es, p, 1) <= WalkWeight(es, q, 1)}

\* What reconstruction keeps of a path: the part after an empty-string
\* identifier that stands before the path's last node.
CutAtEmpty(p) ==
  LET cuts == {i \in 1..(Len(p) - 1) : p[i] = ""}
  IN  IF cuts = {} THEN p
      ELSE SubSeq(p, (CHOOSE i \in cuts : \A j \in cuts : j <= i) + 1, Len(p))

(***************************************************************************)
(* C10 as amended: with non-negative weights, when exactly one             *)
(* minimum-weight simple path P joins A and B, dijkstra(edges, A, B)       *)
(* returns P and dijkstra(edges, B, A) returns the reverse of P, each cut  *)
(* to the part after an empty-string identifier standing before its last   *)
(* node; when several minimum-weight paths tie the two calls may return    *)
(* different ones.                                                         *)
(***************************************************************************)
C10_UniquePathReversal ==
  (Returned /\ NonNegative(edges) /\ ~result.isNull)
  => LET best == ShortestPaths(edges, startNode, endNode)
         back == Dijkstra(edges, endNode, startNode)
     IN  Cardinality(best) = 1
         => \A P \in best :
              /\ result.path = CutAtEmpty(P)
              /\ ~back.isNull
              /\ back.path = CutAtEmpty(Reverse(P))

\* One shortest path of three nodes or more among several simple paths,
\* returned whole in both directions.
C10_Witness ==
  /\ Returned /\ NonNegative(edges) /\ ~result.isNull
  /\ Len(result.path) >= 3
  /\ Cardinality(SimplePaths(edges, startNode, endNode)) >= 2
  /\ Cardinality(ShortestPaths(edges, startNode, endNode)) = 1
  /\ result.path \in ShortestPaths(edges, startNode, endNode)
  /\ Dijkstra(edges, endNode, startNode).path = Reverse(result.path)

\* Two shortest paths tie and each direction returns a different one, whole.
C10_TiedPathsDiffer ==
  /\ Returned /\ NonNegative(edges) /\ ~result.isNull
  /\ result.path \in ShortestPaths(edges, startNode, endNode)
  /\ Reverse(Dijkstra(edges, endNode, startNode).path)
       \in ShortestPaths(edges, startNode, endNode) \ {result.path}

(***************************************************************************)
(* C11. Six-node regression fixture. As claimed: for the list the page     *)
(* loads, A-B:2, B-D:1, D-F:4, A-C:5, B-E:3, C-E:1, E-F:2, the call from A  *)
(* to F returns {path: [A, B, E, F], distance: 7}.                         *)
(***************************************************************************)
FixtureCall == Returned /\ edges = InitialEdges /\ startNode = "A" /\ endNode = "F"

C11_FixtureViaE ==
  FixtureCall
  => result = [isNull |-> FALSE, path |-> <<"A", "B", "E", "F">>, distance |-> 7]

(***************************************************************************)
(* C11 as amended: for that list the call from A to F returns              *)
(* {path: [A, B, D, F], distance: 7}: F is first reached from D, and the   *)
(* route over E, which weighs 7 as well, does not replace it.              *)
(***************************************************************************)
C11_FixtureViaD ==
  FixtureCall
  => result = [isNull |-> FALSE, path |-> <<"A", "B", "D", "F">>, distance |-> 7]

\* The fixture call has returned, and both routes weigh what was returned.
C11_Witness ==
  /\ FixtureCall
  /\ ~result.isNull
  /\ WalkWeight(edges, <<"A", "B", "D", "F">>, 1) = result.distance
  /\ WalkWeight(edges, <<"A", "B", "E", "F">>, 1) = result.distance

(***************************************************************************)
(* C12. No error outcome: whatever the edge list (empty, unknown           *)
(* endpoints, self-loops, duplicates, disconnected parts, zero or negative *)
(* weights) and whatever start and end, every Map entry the code           *)
(* dereferences without a test is present (lines 94, 98 and 99), every     *)
(* turn of the main loop shrinks the unvisited set and every step of the   *)
(* walk back lengthens a path that never outgrows the graph, so the call   *)
(* finishes without raising; and what it returns is either null or a       *)
(* result whose path is not empty.                                         *)
(***************************************************************************)
ReadsDefined ==
  pc = "loop" /\ ~LoopExits(SearchState, endNode)
  => LET u == SelectMin(unvisited, distances).currentNode
     IN  /\ MapHas(graph, u)
         /\ MapHas(distances, u)
         /\ \A i \in DOMAIN MapGet(graph, u).keys :
              MapHas(distances, MapGet(graph, u).keys[i])

C12_Outcome ==
  /\ ReadsDefined
  /\ pc = "path" => Len(path) <= Len(graph.keys)
  /\ Returned => \/ result = NullResult
                 \/ ~result.isNull /\ Len(result.path) >= 1

C12_Progress ==
  /\ pc = "loop" /\ pc' = "loop" => Len(unvisited') < Len(unvisited)
  /\ pc' = "path" => Len(path') = Len(path) + 1

C12_NoErrorOutcome == []C12_Outcome /\ [][C12_Progress]_vars

\* A call on a list with a negative self-loop has returned a result.
C12_Witness ==
  /\ Returned
  /\ ~result.isNull
  /\ Len(result.path) >= 2
  /\ \E i \in DOMAIN edges : edges[i].from = edges[i].to /\ edges[i].weight < 0

(***************************************************************************)
(* C14. Negative weights are accepted unvalidated and break minimality: a  *)
(* list with a negative weight is never rejected (known, connected start   *)
(* and end still get a result), and for A-B:2, A-C:3, C-B:-2 the call from *)
(* A to B returns the path [A, B] of distance 2 although the simple path   *)
(* A-C-B weighs 1.                                                         *)
(***************************************************************************)
C14_NegativeBreaksMinimality ==
  /\ Returned /\ ~NonNegative(edges) /\ BothKnown
       /\ Connected(edges, startNode, endNode)
     => ~result.isNull
  /\ Returned /\ edges = NegativeEdges /\ startNode = "A" /\ endNode = "B"
     => /\ result = Found(<<"A", "B">>, 2)
        /\ <<"A", "C", "B">> \in SimplePaths(edges, "A", "B")
        /\ WalkWeight(edges, <<"A", "C", "B">>, 1) = 1

\* A returned distance strictly above the weight of another simple path.
C14_Witness ==
  /\ Returned
  /\ ~NonNegative(edges)
  /\ ~result.isNull
  /\ \E p \in SimplePaths(edges, startNode, endNode) :
       WalkWeight(edges, p, 1) < result.distance
(***************************************************************************)
(* C15. Favicon animator stop: once controller.stop() or                   *)
(* stopFaviconAnimation() was the last call made, the animation stays      *)
(* stopped whatever happens next without a further call: it is not         *)
(* running, no interval timer is active and there is no animated link,     *)
(* also when the preloading begun by an earlier startFaviconAnimation ends *)
(* after the stop.                                                         *)
(***************************************************************************)
StopCalls == {"stopFaviconAnimation", "controller.stop"}

C15_StaysStopped ==
  lastCall \in StopCalls
  => /\ ~State.running
     /\ State.timerId = Null
     /\ State.animatedLinks = <<>>

(***************************************************************************)
(* C16. Favicon takeover: while an animation started with                  *)
(* takeoverExistingIcons runs, none of the page's own icon links is in the *)
(* document head, and after a stop every one of them is back.              *)
(***************************************************************************)
C16_Takeover ==
  /\ State.running /\ State.takeoverExistingIcons
     => headIcons \cap OriginalIcons = {}
  /\ lastCall \in StopCalls => OriginalIcons \subseteq headIcons

(***************************************************************************)
(* C17. Settled nodes are final: with non-negative weights, no step        *)
(* changes the distance or the predecessor of a node that has been removed *)
(* from the unvisited set, and the distance it holds, from the moment of   *)
(* its removal on, is its least distance from start.                       *)
(***************************************************************************)
Settled(v) == MapHas(distances, v) /\ ~SetHas(unvisited, v)

\* The least distances from s to every node, by the reference computation.
RECURSIVE RefFixpoint(_, _, _)
RefFixpoint(es, d, k) ==
  LET next == RefRound(es, d)
  IN  IF k = 0 \/ next = d THEN d ELSE RefFixpoint(es, next, k - 1)

RefDistances(es, s) ==
  RefFixpoint(es, [v \in NodesOf(es) |-> IF v = s THEN 0 ELSE Infinity],
              Cardinality(NodesOf(es)))

\* No step touches a settled node or makes it unvisited again.
C17_Step ==
  NonNegative(edges) /\ distances # EmptyMap
  => \A i \in DOMAIN distances.keys :
       LET v == distances.keys[i]
       IN  Settled(v) => /\ MapGet(distances', v) = MapGet(distances, v)
                         /\ MapGet(previous', v) = MapGet(previous, v)
                         /\ ~SetHas(unvisited', v)

\* When the loop is left, every settled node holds its least distance; by
\* C17_Step that is the distance it held when it was removed.
C17_Settled ==
  pc = "guard" /\ NonNegative(edges)
  => LET least == RefDistances(edges, startNode)
     IN  \A i \in DOMAIN distances.keys :
           Settled(distances.keys[i])
           => MapGet(distances, distances.keys[i]) = least[distances.keys[i]]

C17_SettledFinal == []C17_Settled /\ [][C17_Step]_vars

\* Two nodes are settled, the later one next to the earlier one, and the
\* search goes on.
C17_Witness ==
  /\ pc = "loop"
  /\ NonNegative(edges)
  /\ ~LoopExits(SearchState, endNode)
  /\ \E v \in NodesOf(edges) :
       /\ v # startNode
       /\ Settled(v)
       /\ Settled(startNode)
       /\ MapGet(distances, v) > 0
       /\ \E u \in NodesOf(edges) : HasEdge(edges, u, v) /\ SetHas(unvisited, u)

(***************************************************************************)
(* C18. Strict improvement only: a turn of the loop that settles u changes *)
(* distance[v] or predecessor[v] only for a neighbour v of u that is still *)
(* unvisited and for which distance[u] + w(u,v) is strictly less than      *)
(* distance[v]; it then sets distance[v] to that sum and predecessor[v] to *)
(* u, both together. When the sum equals distance[v], both are left as     *)
(* they were.                                                              *)
(***************************************************************************)
Selected == SelectMin(unvisited, distances).currentNode

Improves(u, v) ==
  /\ SetHas(unvisited, v)
  /\ v # u
  /\ MapHas(MapGet(graph, u), v)
  /\ MapGet(distances, u) + MapGet(MapGet(graph, u), v) < MapGet(distances, v)

C18_Step ==
  pc = "loop" /\ pc' = "loop"
  => \A i \in DOMAIN distances.keys :
       LET v == distances.keys[i]
           u == Selected
       IN  IF Improves(u, v)
           THEN /\ MapGet(distances', v)
                     = MapGet(distances, u) + MapGet(MapGet(graph, u), v)
                /\ MapGet(previous', v) = u
                /\ MapGet(previous, v) # u
           ELSE /\ MapGet(distances', v) = MapGet(distances, v)
                /\ MapGet(previous', v) = MapGet(previous, v)

C18_StrictImprovementOnly == [][C18_Step]_vars

\* The search goes on from a node with an unvisited neighbour that has been
\* reached already and for which the alternative is exactly as long.
C18_Witness ==
  /\ pc = "loop"
  /\ ~LoopExits(SearchState, endNode)
  /\ \E i \in DOMAIN unvisited :
       LET v == unvisited[i]
           u == Selected
       IN  /\ v # u
           /\ MapHas(MapGet(graph, u), v)
           /\ MapGet(previous, v) # Null
           /\ MapGet(distances, u) + MapGet(MapGet(graph, u), v) = MapGet(distances, v)
(***************************************************************************)
(* C19. Early stop is result-preserving: the end node is never removed     *)
(* from the unvisited set (so nothing is relaxed from it), and what the    *)
(* call returns is what the same search returns when it goes on after      *)
(* selecting the end node, until the unvisited set is exhausted or holds   *)
(* only unreachable nodes.                                                 *)
(***************************************************************************)
\* Lines 68 and 82 without the break of line 87.
LoopExhausts(st) ==
  LET sel == SelectMin(st.unvisited, st.distances)
  IN  \/ Len(st.unvisited) = 0
      \/ sel.currentNode = Null
      \/ sel.minDistance = Infinity

RECURSIVE RunToEnd(_, _)
RunToEnd(st, g) ==
  IF LoopExhausts(st) THEN st ELSE RunToEnd(LoopBody(st, g), g)

WithoutEarlyStop(es, s, e) ==
  LET g == BuildGraphOf(es)
  IN  IF ~NodesExist(g, s, e) THEN NullResult
      ELSE IF SameNode(s, e) THEN Found(<<s>>, 0)
      ELSE LET st == RunToEnd(InitSearchOf(g, s), g)
           IN  IF NoPredecessor(st.previous, s, e) THEN NullResult
               ELSE FinalResult(WalkBack(st.previous, e, <<>>), st.distances, e)

C19_EarlyStopPreserves ==
  /\ distances # EmptyMap => SetHas(unvisited, endNode)
  /\ Returned => result = WithoutEarlyStop(edges, startNode, endNode)

\* A result was returned while a reached node other than the end was still
\* unvisited: the search without the break would have gone on.
C19_Witness ==
  /\ Returned
  /\ ~result.isNull
  /\ startNode # endNode
  /\ \E i \in DOMAIN unvisited :
       /\ unvisited[i] # endNode
       /\ MapGet(distances, unvisited[i]) < Infinity
       /\ MapGet(previous, unvisited[i]) # startNode

(***************************************************************************)
(* C20. The final defensive check is unreachable: once the predecessor     *)
(* guard has been passed, the distance of the end node is finite and the   *)
(* reconstructed path is not empty, so null is returned only before the    *)
(* path is built, never by the check on distance and path after it.        *)
(***************************************************************************)
C20_DefensiveCheckUnreachable ==
  /\ pc = "guard" /\ ~NoPredecessor(previous, startNode, endNode)
     => MapGet(distances, endNode) < Infinity
  /\ pc = "path" => MapGet(distances, endNode) < Infinity /\ Len(path) >= 1
  /\ Returned /\ result.isNull => path = <<>>

\* The walk back is over and the check of lines 122-127 is about to run.
C20_Witness ==
  /\ pc = "path"
  /\ current = Null
  /\ Len(path) >= 2
  /\ MapGet(distances, endNode) < Infinity
(***************************************************************************)
(* C21. Tie-break order: the node a turn of the loop selects is an         *)
(* unvisited node of least distance, and of the unvisited nodes at that    *)
(* distance it is the one the edge list mentions first (an edge's from     *)
(* before its to); the unvisited nodes always stand in the order of their  *)
(* first mention, whatever has been removed.                               *)
(***************************************************************************)
FirstMention(es, n) ==
  LET m == Mentions(es)
  IN  CHOOSE i \in DOMAIN m : m[i] = n /\ \A j \in 1..(i - 1) : m[j] # n

C21_TieBreakOrder ==
  pc = "loop"
  => /\ \A i, j \in DOMAIN unvisited :
          i < j => FirstMention(edges, unvisited[i]) < FirstMention(edges, unvisited[j])
     /\ ~LoopExits(SearchState, endNode)
        => /\ SetHas(unvisited, Selected)
           /\ \A i \in DOMAIN unvisited :
                LET v == unvisited[i]
                IN  /\ MapGet(distances, Selected) <= MapGet(distances, v)
                    /\ MapGet(distances, v) = MapGet(distances, Selected) /\ v # Selected
                       => FirstMention(edges, Selected) < FirstMention(edges, v)

\* A node is selected while another unvisited node is exactly as near, after
\* a node mentioned between the two has been removed.
C21_Witness ==
  /\ pc = "loop"
  /\ ~LoopExits(SearchState, endNode)
  /\ \E i \in DOMAIN unvisited :
       /\ unvisited[i] # Selected
       /\ MapGet(distances, unvisited[i]) = MapGet(distances, Selected)
       /\ \E w \in NodesOf(edges) :
            /\ Settled(w)
            /\ FirstMention(edges, Selected) < FirstMention(edges, w)
            /\ FirstMention(edges, w) < FirstMention(edges, unvisited[i])
(***************************************************************************)
(* C22. Self-loops are inert. As claimed: for start # end, the call on a   *)
(* list returns null exactly when the call on the same list without its    *)
(* self-loops does, and with the same distance, whatever the weights.      *)
(***************************************************************************)
IsSelfLoop(edge) == edge.from = edge.to

WithoutSelfLoops(es) == SelectSeq(es, LAMBDA edge : ~IsSelfLoop(edge))

SameOutcome(r1, r2) == r1.isNull = r2.isNull /\ r1.distance = r2.distance

C22_SelfLoopsInert ==
  Returned /\ startNode # endNode
  => SameOutcome(result, Dijkstra(WithoutSelfLoops(edges), startNode, endNode))

(***************************************************************************)
(* C22 as amended: a self-loop is stored as a self-neighbour, and when the *)
(* edges that are not self-loops have non-negative weights, for            *)
(* start # end the call on a list returns null exactly when the call on    *)
(* the same list without its self-loops does, and with the same distance,  *)
(* whatever the weights of the self-loops. With a negative weight between  *)
(* two different nodes a self-loop can change the distance, because it     *)
(* changes the order in which equally near nodes are selected.             *)
(***************************************************************************)
C22_SelfLoopsInertNonNegative ==
  /\ pc = "check"
     => \A i \in DOMAIN edges :
          IsSelfLoop(edges[i]) => MapHas(MapGet(graph, edges[i].from), edges[i].from)
  /\ Returned /\ startNode # endNode /\ NonNegative(WithoutSelfLoops(edges))
     => SameOutcome(result, Dijkstra(WithoutSelfLoops(edges), startNode, endNode))

\* A result over at least one edge was returned for a list with a negative
\* self-loop on a node of the returned path.
C22_Witness ==
  /\ Returned
  /\ startNode # endNode
  /\ ~result.isNull
  /\ NonNegative(WithoutSelfLoops(edges))
  /\ \E i \in DOMAIN edges :
       /\ IsSelfLoop(edges[i])
       /\ edges[i].weight < 0
       /\ \E k \in DOMAIN result.path : result.path[k] = edges[i].from
(***************************************************************************)
(* C23. Termination: every step of a call brings it nearer to its return,  *)
(* by a measure that starts finite and never goes below zero. A turn of    *)
(* the main loop that does not leave the loop removes exactly one node     *)
(* from the unvisited set, so the loop makes at most as many turns as the  *)
(* graph has nodes, and the walk back puts at most that many nodes in the  *)
(* path, also when weights are negative.                                   *)
(***************************************************************************)
\* The steps a call can still take, at most: a list of n edges names at most
\* 2n nodes.
StepsLeft ==
  LET n == 2 * Len(edges)
  IN  CASE pc = "build" -> 2 * n + 5
        [] pc = "check" -> 2 * n + 4
        [] pc = "loop"  -> n + 3 + Len(unvisited)
        [] pc = "guard" -> n + 2
        [] pc = "path"  -> n + 1 - Len(path)
        [] OTHER        -> 0

C23_Bounded ==
  /\ Len(unvisited) <= Len(graph.keys)
  /\ Len(path) <= Len(graph.keys)
  /\ Len(graph.keys) <= 2 * Len(edges)
  /\ StepsLeft >= 0
  /\ StepsLeft = 0 <=> Returned

C23_Step ==
  /\ StepsLeft' < StepsLeft
  /\ pc = "loop" => \/ pc' = "guard" /\ unvisited' = unvisited
                    \/ pc' = "loop" /\ Len(unvisited') = Len(unvisited) - 1
  /\ pc' = "path" => Len(path') = Len(path) + 1

C23_Termination == []C23_Bounded /\ [][C23_Step]_vars

\* With a negative weight, the loop took every node but the end and the walk
\* back went through three nodes or more.
C23_Witness ==
  /\ Returned
  /\ ~NonNegative(edges)
  /\ ~result.isNull
  /\ Len(unvisited) = 1
  /\ Len(result.path) >= 3

(***************************************************************************)
(* C24. The adjacency mapping is symmetric: once the graph is built, v is  *)
(* a neighbour of u exactly when u is a neighbour of v, and with the same  *)
(* weight; every neighbour is a node of the graph. An edge written         *)
(* (B, A, w) overwrites both directions of an earlier (A, B, w').          *)
(***************************************************************************)
C24_Symmetric ==
  pc = "check"
  => \A i, j \in DOMAIN graph.keys :
       LET u == graph.keys[i]
           v == graph.keys[j]
       IN  /\ MapHas(MapGet(graph, u), v) <=> MapHas(MapGet(graph, v), u)
           /\ MapHas(MapGet(graph, u), v)
              => MapGet(MapGet(graph, u), v) = MapGet(MapGet(graph, v), u)
           /\ \A k \in DOMAIN MapGet(graph, u).keys :
                MapHas(graph, MapGet(graph, u).keys[k])

\* The graph of a list in which a pair is written twice, the second time the
\* other way round and with another weight.
C24_Witness ==
  /\ pc = "check"
  /\ \E i, j \in DOMAIN edges :
       /\ i < j
       /\ edges[i].from # edges[i].to
       /\ edges[j].from = edges[i].to
       /\ edges[j].to = edges[i].from
       /\ edges[j].weight # edges[i].weight
       /\ MapGet(MapGet(graph, edges[i].from), edges[i].to) = edges[j].weight
       /\ MapGet(MapGet(graph, edges[i].to), edges[i].from) = edges[j].weight
(***************************************************************************)
(* C25. Path reconstruction follows the predecessor chain from end all the *)
(* way back to start for every node identifier, the empty string           *)
(* included: the returned path is the whole chain of predecessors of end,  *)
(* and it begins with start.                                               *)
(***************************************************************************)
\* The predecessors of a node, back to the node that has none.
RECURSIVE ChainOf(_, _, _)
ChainOf(prev, cur, p) ==
  IF cur = Null THEN p ELSE ChainOf(prev, MapGet(prev, cur), <<cur>> \o p)

C25_WholeChain ==
  Returned /\ ~result.isNull /\ startNode # endNode
  => /\ result.path = ChainOf(previous, endNode, <<>>)
     /\ result.path[1] = startNode
(***************************************************************************)
(* C26. Predecessor links never form a cycle: at every step of the search, *)
(* for weights of any sign, following the predecessor links from any node  *)
(* reaches a node without predecessor in at most as many steps as there    *)
(* are nodes, start never gets a predecessor, and the returned path never  *)
(* holds the same node twice.                                              *)
(***************************************************************************)
\* Following the links from cur ends within k steps.
RECURSIVE ChainEnds(_, _, _)
ChainEnds(prev, cur, k) ==
  \/ cur = Null
  \/ k > 0 /\ ChainEnds(prev, MapGet(prev, cur), k - 1)

C26_NoCycle ==
  /\ pc \in {"loop", "guard"}
     => /\ MapGet(previous, startNode) = Null
        /\ \A i \in DOMAIN previous.keys :
             ChainEnds(previous, previous.keys[i], Len(previous.keys))
  /\ Returned
     => \A i, j \in DOMAIN result.path : result.path[i] = result.path[j] => i = j

\* With a negative weight, a neighbour of start got a new predecessor that
\* has a predecessor of its own.
C26_Witness ==
  /\ pc = "loop"
  /\ ~NonNegative(edges)
  /\ \E u \in NodesOf(edges) :
       /\ HasEdge(edges, startNode, u)
       /\ MapGet(previous, u) \notin {Null, startNode}
  /\ \E i \in DOMAIN previous.keys :
       LET v == previous.keys[i]
       IN  /\ MapGet(previous, v) # Null
           /\ MapGet(previous, MapGet(previous, v)) # Null

(***************************************************************************)
(* C27: on the graph-editing page every edge of the edge list has its      *)
(* source and its target in the node list, and the selected start and end  *)
(* nodes are each empty or a node of the node list, after any sequence of  *)
(* handlers.                                                               *)
(***************************************************************************)
C27_ReferentialIntegrity ==
  /\ \A i \in DOMAIN pageEdges :
       /\ NodeExists(pageNodes, pageEdges[i].source)
       /\ NodeExists(pageNodes, pageEdges[i].target)
  /\ pageStart \in {""} \cup NodeIds(pageNodes)
  /\ pageEnd \in {""} \cup NodeIds(pageNodes)

\* The loaded example after removeNode("F"): the edges D-F and E-F are gone
\* with it, and so is the selected end node.
C27_Witness ==
  /\ NodeIds(pageNodes) = {"A", "B", "C", "D", "E"}
  /\ Len(pageEdges) = 5
  /\ pageStart = "A"
  /\ pageEnd = ""

(***************************************************************************)
(* C28: addEdge refuses a new edge as already existing only when an edge   *)
(* of the edge list joins the same two nodes, in either orientation, for   *)
(* every pair of nodes of the node list. The ids A-B + A and A + B-A are   *)
(* the same string, so the test of lines 129-131 also refuses pairs that   *)
(* no edge joins.                                                          *)
(***************************************************************************)
PageJoins(e, source, target) ==
  \/ e.source = source /\ e.target = target
  \/ e.source = target /\ e.target = source

C28_RefusesOnlyJoinedPairs ==
  \A source, target \in NodeIds(pageNodes) :
    EdgeExists(pageEdges, source, target) =>
      \E i \in DOMAIN pageEdges : PageJoins(pageEdges[i], source, target)

(***************************************************************************)
(* C29: the edge list the page hands to dijkstra has no negative weight    *)
(* and no two edges that join the same unordered pair of nodes, after any  *)
(* sequence of handlers.                                                   *)
(***************************************************************************)
C29_EnginePreconditions ==
  LET es == GraphEdges(pageEdges)
  IN  /\ \A i \in DOMAIN es : es[i].weight >= 0
      /\ \A i, j \in DOMAIN es :
           i # j => {es[i].from, es[i].to} # {es[j].from, es[j].to}

\* A graph typed in by hand is handed over: two edges, one of them a
\* self-loop, start and end selected, and a path shown.
C29_Witness ==
  /\ HandBuilt
  /\ Len(pageEdges) = 2
  /\ \E i \in DOMAIN pageEdges : pageEdges[i].source = pageEdges[i].target
  /\ pageStart # ""
  /\ pageEnd # ""
  /\ pageStart # pageEnd
  /\ ShortestPath.distance = 2

(***************************************************************************)
(* POST /api/unfollow, src/app/api/unfollow/route.ts. A request is a       *)
(* record of requests; the handler gives up control at each await, so each *)
(* stretch between two awaits is one action and the stretches of different *)
(* requests interleave. The follow relation changes in this handler only.  *)
(***************************************************************************)
MaxRequests == 2

\* What a request body can carry as followerId or followingId: nothing, a
\* text that is no number, the two users, and the id of no user.
IdInputs == {"", "x", "1", "2", "3"}

\* parseInt on the texts above; nan stands for NaN.
ParseInt(text) ==
  CASE text = "1" -> [nan |-> FALSE, value |-> 1]
    [] text = "2" -> [nan |-> FALSE, value |-> 2]
    [] text = "3" -> [nan |-> FALSE, value |-> 3]
    [] OTHER      -> [nan |-> TRUE, value |-> 0]

Pending == "pending"

Request(followerId, followingId, at, status) ==
  [followerId |-> followerId, followingId |-> followingId, at |-> at,
   status |-> status]

\* Lines 10-33: the status the handler answers with before it reads the
\* database, Pending if it goes on.
Validate(followerId, followingId) ==
  IF followerId = "" \/ followingId = "" THEN "400"
  ELSE IF ParseInt(followerId).nan \/ ParseInt(followingId).nan THEN "400"
  ELSE IF ParseInt(followerId).value = ParseInt(followingId).value THEN "400"
  ELSE Pending

\* Lines 49-58: findFirst of the follower with the other user among the
\* users it follows.
IsFollowing(rel, followerId, followingId) == <<followerId, followingId>> \in rel

\* Lines 69-76: disconnect takes the pair out of the relation, and leaves the
\* relation alone when the pair is not in it.
Disconnect(rel, followerId, followingId) == rel \ {<<followerId, followingId>>}

\* Lines 77-83.
UnfollowPost(followerId, followingId) ==
  [followerId |-> followerId, followingId |-> followingId, action |-> "unfollow"]

\* Lines 87-89.
EmittedEvents == <<"graph-updated", "posts-updated", "users-updated">>

InitUnfollow == UnfollowInit /\ DijkstraIdle /\ FaviconInit /\ PageInit

\* Lines 7-36: a request arrives, is validated, and asks for the two users.
Post(followerId, followingId) ==
  /\ Len(requests) < MaxRequests
  /\ LET status == Validate(followerId, followingId)
     IN  requests' =
           Append(requests,
                  Request(ParseInt(followerId).value, ParseInt(followingId).value,
                          IF status = Pending THEN "findUnique" ELSE "returned",
                          status))
  /\ UNCHANGED <<follows, posts, socketEvents>>
  /\ UNCHANGED <<dijkstra, favicon, page>>

\* Lines 36-58: the users are back; 404, or ask whether the one follows the
\* other.
FindUnique(r) ==
  /\ r \in DOMAIN requests
  /\ requests[r].at = "findUnique"
  /\ requests' =
       [requests EXCEPT
          ![r] = IF requests[r].followerId \in Users /\ requests[r].followingId \in Users
                 THEN [@ EXCEPT !.at = "findFirst"]
                 ELSE [@ EXCEPT !.at = "returned", !.status = "404"]]
  /\ UNCHANGED <<follows, posts, socketEvents>>
  /\ UNCHANGED <<dijkstra, favicon, page>>

\* Lines 49-68: the answer of findFirst is what the database holds when the
\* query runs; 400, or hand the transaction to the database.
FindFirst(r) ==
  /\ r \in DOMAIN requests
  /\ requests[r].at = "findFirst"
  /\ requests' =
       [requests EXCEPT
          ![r] = IF IsFollowing(follows, requests[r].followerId, requests[r].followingId)
                 THEN [@ EXCEPT !.at = "transaction"]
                 ELSE [@ EXCEPT !.at = "returned", !.status = "400"]]
  /\ UNCHANGED <<follows, posts, socketEvents>>
  /\ UNCHANGED <<dijkstra, favicon, page>>

\* Lines 68-91: the transaction runs, then the events go out and the handler
\* answers ok.
Transaction(r) ==
  /\ r \in DOMAIN requests
  /\ requests[r].at = "transaction"
  /\ follows' = Disconnect(follows, requests[r].followerId, requests[r].followingId)
  /\ posts' = Append(posts, UnfollowPost(requests[r].followerId, requests[r].followingId))
  /\ socketEvents' = socketEvents \o EmittedEvents
  /\ requests' = [requests EXCEPT ![r] = [@ EXCEPT !.at = "returned", !.status = "200"]]
  /\ UNCHANGED <<dijkstra, favicon, page>>

NextUnfollow ==
  \/ \E followerId \in IdInputs : \E followingId \in IdInputs :
       Post(followerId, followingId)
  \/ \E r \in 1..MaxRequests : FindUnique(r)
  \/ \E r \in 1..MaxRequests : FindFirst(r)
  \/ \E r \in 1..MaxRequests : Transaction(r)

SpecUnfollow == InitUnfollow /\ [][NextUnfollow]_vars

(***************************************************************************)
(* C30: however concurrent requests to unfollow interleave, there are      *)
(* never more 'unfollow' posts than follow relations removed. Two requests *)
(* for the same pair can both pass findFirst before either transaction     *)
(* runs, and then both create a post.                                      *)
(***************************************************************************)
C30_OnePostPerRelation ==
  Len(posts) <= Cardinality(InitialFollows \ follows)

====
